---------------------------- MODULE Spec2Model ----------------------------
(***************************************************************************)
(* Bit-banged driver for the ADS1232 / ADS1234 delta-sigma converters      *)
(* (src/src/lib.rs).  The driver owns five lines: DOUT (input), SCLK,      *)
(* PWDN, A0 and A1 (outputs, A0/A1 report their last driven level).        *)
(* Every pin operation and every delay of the driver is one step.          *)
(***************************************************************************)
EXTENDS Integers, Sequences, FiniteSets, TLC

VARIABLES
    model,        \* chip variant tag of the handle: "ADS1232" or "ADS1234"
    a0, a1,       \* last driven level of the two select lines (TRUE = high)
    sclk, pwdn,   \* last driven level of the clock and the power-down line
    dout,         \* level of the data line as last observed by the driver
    op,           \* operation in flight, or the one that returned last
    async,        \* TRUE: cooperative-suspend implementation, FALSE: blocking
    pc,           \* position inside the operation, "idle" between calls
    channel,      \* read: the requested channel
    old_channel,  \* read: the channel set_channel derived from the lines
    left,         \* read: iterations of the discard loop still to run
    ret,          \* where read_internal returns to
    i,            \* read_internal: iterations of the bit loop completed
    data,         \* read_internal: the u32 accumulator (i24_to_i32's argument)
    word,         \* the conversion the converter shifts out in this acquisition
    bits,         \* levels sampled on the data line in this acquisition
    result,       \* value returned by the last read_internal / i24_to_i32
    log,          \* pin writes, delays and acquisitions of the current call
    prevOp,       \* the operation that returned before the current one
    prevChannel,  \* and its channel, when it was a read
    clk,          \* clock writes, delays, waits and samples of this acquisition
    entry,        \* levels of the four output lines when the call began
    fault         \* position of the pin operation that failed, or "none"

vars == <<model, a0, a1, sclk, pwdn, dout, op, async, pc, channel, old_channel,
          left, ret, i, data, word, bits, result, log, prevOp, prevChannel,
          clk, entry, fault>>

High == TRUE
Low == FALSE
Level == {High, Low}

-----------------------------------------------------------------------------
(* Bounds of the model *)

\* number of distinct conversion results the converter may shift out
NumWords == 3
\* the sign-extension inputs lie within ConvSpread of each boundary value
ConvSpread == 8

-----------------------------------------------------------------------------
(* Machine arithmetic.  A u32 is the pair <<high half, low half>> of its    *)
(* 16-bit halves, so that the whole range 0 .. 2^32 - 1 is representable.  *)

Half == 2 ^ 16

U32(n) == <<n \div Half, n % Half>>

RECURSIVE BitAnd(_, _)
BitAnd(x, y) ==
    IF x = 0 \/ y = 0 THEN 0
    ELSE (IF x % 2 = 1 /\ y % 2 = 1 THEN 1 ELSE 0) + 2 * BitAnd(x \div 2, y \div 2)

RECURSIVE BitOr(_, _)
BitOr(x, y) ==
    IF x = 0 THEN y
    ELSE IF y = 0 THEN x
    ELSE (IF x % 2 = 1 \/ y % 2 = 1 THEN 1 ELSE 0) + 2 * BitOr(x \div 2, y \div 2)

\* x & y, x | y on u32
And32(x, y) == <<BitAnd(x[1], y[1]), BitAnd(x[2], y[2])>>
Or32(x, y) == <<BitOr(x[1], y[1]), BitOr(x[2], y[2])>>

\* x << 1 on u32: the bit shifted out of bit 31 is lost
Shl1(x) == <<(2 * x[1] + x[2] \div (Half \div 2)) % Half, (2 * x[2]) % Half>>

\* "b as u32" of a bool
BoolAsU32(b) == IF b THEN U32(1) ELSE U32(0)

\* "x as i32" of a u32
AsI32(x) == (IF x[1] >= Half \div 2 THEN x[1] - Half ELSE x[1]) * Half + x[2]

-----------------------------------------------------------------------------
(* Program constants *)

DataBits == 24
DiscardCount == 4
SettleUs == 50
ResetStabilizeUs == 50
ResetPulseUs == 26
\* 0xFFFFFF and 0x800000
Mask24 == U32(16777215)
SignBit24 == U32(8388608)

-----------------------------------------------------------------------------
(* i24_to_i32 *)

i24_to_i32_NoMask(value) ==
    IF And32(value, SignBit24) # U32(0)
    THEN AsI32(value) - 16777216
    ELSE AsI32(value)

i24_to_i32(value) ==
    LET masked_value == And32(value, Mask24)
    IN  IF And32(masked_value, SignBit24) # U32(0)
        THEN AsI32(masked_value) - 2 ^ 24
        ELSE AsI32(masked_value)

-----------------------------------------------------------------------------
(* Channels and the select-line mappings of set_channel *)

Variants == {"ADS1232", "ADS1234"}
ADS1232Channel == {"AIN1", "AIN2", "Temp"}
ADS1234Channel == {"AIN1", "AIN2", "AIN3", "AIN4"}
Channels(m) == IF m = "ADS1232" THEN ADS1232Channel ELSE ADS1234Channel

\* ADS1232: the match on (a0.is_set_high(), a1.is_set_high())
OldChannel1232(h0, h1) ==
    CASE h0 /\ ~h1 -> "AIN1"
      [] ~h0 /\ ~h1 -> "AIN2"
      [] h1 -> "Temp"

\* ADS1232: the (a0, temp) pair driven for a channel
Levels1232(c) ==
    CASE c = "AIN1" -> <<Low, Low>>
      [] c = "AIN2" -> <<High, Low>>
      [] c = "Temp" -> <<Low, High>>

OldChannel1234_Swapped(h0, h1) ==
    CASE ~h0 /\ ~h1 -> "AIN2"
      [] h0 /\ ~h1 -> "AIN1"
      [] ~h0 /\ h1 -> "AIN3"
      [] h0 /\ h1 -> "AIN4"

\* ADS1234: the match on (a0.is_set_high(), a1.is_set_high())
OldChannel1234(h0, h1) ==
    CASE ~h0 /\ ~h1 -> "AIN1"
      [] h0 /\ ~h1 -> "AIN2"
      [] ~h0 /\ h1 -> "AIN3"
      [] h0 /\ h1 -> "AIN4"

\* ADS1234: the (a0, a1) pair driven for a channel
Levels1234(c) ==
    CASE c = "AIN1" -> <<Low, Low>>
      [] c = "AIN2" -> <<High, Low>>
      [] c = "AIN3" -> <<Low, High>>
      [] c = "AIN4" -> <<High, High>>

OldChannel(m, h0, h1) ==
    IF m = "ADS1232" THEN OldChannel1232(h0, h1) ELSE OldChannel1234(h0, h1)

Levels(m, c) == IF m = "ADS1232" THEN Levels1232(c) ELSE Levels1234(c)

NeedsSettle_Never(old, new) == FALSE

\* read: "if old_channel != channel { delay_us(50) }"
NeedsSettle(old, new) == old # new

NeedsDiscard_AnyChange(m, old, new) == m = "ADS1232" /\ old # new

NeedsDiscard_IntoTempOnly(m, old, new) ==
    m = "ADS1232" /\ old # "Temp" /\ new = "Temp"

\* read: "(old_channel == Temp) != (channel == Temp)", ADS1232 only
NeedsDiscard(m, old, new) ==
    m = "ADS1232" /\ ((old = "Temp") # (new = "Temp"))


-----------------------------------------------------------------------------
(* The converter: the data line *)

WordTable == <<1, 8388608, 8388607, 16777215, 0, 5592405>>
WordAt(k) == IF k <= Len(WordTable) THEN WordTable[k] ELSE (k * 123457) % 16777216

\* conversion results the converter may hold when it signals data ready
SampleWords == {WordAt(k) : k \in 1..NumWords}

\* level of the data line while the clock is high in pulse n+1 (n = 0 first):
\* the converter shifts the conversion out most significant bit first
DoutBit(w, n) == ((w \div 2 ^ (DataBits - 1 - n)) % 2) = 1

-----------------------------------------------------------------------------
(* Initial state: a handle just built by ADS1232::new / ADS1234::new *)

\* the levels of the four output lines
Lines == [a0 |-> a0, a1 |-> a1, sclk |-> sclk, pwdn |-> pwdn]

Init ==
    /\ model \in Variants
    /\ a0 \in Level /\ a1 \in Level
    /\ sclk \in Level /\ pwdn \in Level
    /\ dout \in Level
    /\ op = "none" /\ async = FALSE /\ pc = "idle"
    /\ channel = "none" /\ old_channel = "none"
    /\ left = 0 /\ ret = "none"
    /\ i = 0 /\ data = U32(0) /\ word = 0 /\ bits = <<>> /\ result = 0
    /\ log = <<>>
    /\ prevOp = "none" /\ prevChannel = "none"
    /\ clk = <<>> /\ fault = "none"
    /\ entry = Lines

-----------------------------------------------------------------------------
(* Calls *)

Begin(o, as, c, first, r) ==
    /\ pc = "idle"
    /\ op' = o /\ async' = as /\ channel' = c /\ pc' = first
    /\ prevOp' = op /\ prevChannel' = channel
    /\ old_channel' = "none" /\ left' = 0 /\ ret' = r
    /\ i' = 0 /\ data' = U32(0) /\ word' = 0 /\ bits' = <<>> /\ result' = 0
    /\ log' = <<>> /\ clk' = <<>>
    /\ entry' = Lines
    /\ UNCHANGED <<model, a0, a1, sclk, pwdn, dout, fault>>

\* reset_blocking / reset
CallReset == \E as \in BOOLEAN : Begin("reset", as, "none", "rs_low1", "none")

\* calibrate_offset_blocking / calibrate_offset: begins with read_internal
CallCalibrateOffset ==
    \E as \in BOOLEAN : Begin("calibrate_offset", as, "none", "ri_sclk_low", "calibrate")

\* enter_standby_blocking / enter_standby
CallEnterStandby == \E as \in BOOLEAN : Begin("enter_standby", as, "none", "sb_sclk_low", "none")

\* read_blocking / read, of the handle's variant
CallRead ==
    \E as \in BOOLEAN, c \in Channels(model) : Begin("read", as, c, "sc_match", "none")

-----------------------------------------------------------------------------
(* Steps shared by the operations *)

Ev(name, n) == <<name, n>>
LevelNum(lvl) == IF lvl THEN 1 ELSE 0

\* the delay_ns calls of read_internal, by position: 50, 50 and 100 ns in the
\* bit loop (its third one is the step RiBitNext), 100 and 100 ns in pulse 25
AcqDelayNs ==
    [ri_bit_hold1 |-> 50, ri_bit_hold2 |-> 50, ri_bit_hold3 |-> 100,
     ri_p25_hold1 |-> 100, ri_p25_hold2 |-> 100]

\* the positions of the clock writes of read_internal
AcqClockWrites == {"ri_sclk_low", "ri_bit_high", "ri_bit_low", "ri_p25_high", "ri_p25_low"}

\* a step that changes nothing but the position and the log
Pass(at, next, events) ==
    /\ pc = at
    /\ pc' = next
    /\ log' = log \o events
    /\ clk' = IF at \in DOMAIN AcqDelayNs
              THEN Append(clk, Ev("delay_ns", AcqDelayNs[at])) ELSE clk
    /\ UNCHANGED <<model, a0, a1, sclk, pwdn, dout, op, async, channel,
                   old_channel, left, ret, i, data, word, bits, result,
                   prevOp, prevChannel, entry, fault>>

PwdnWrite_Inverted(at, lvl, next) ==
    /\ pc = at
    /\ pwdn' = ~lvl
    /\ pc' = next
    /\ log' = Append(log, Ev("pwdn", LevelNum(~lvl)))
    /\ UNCHANGED clk
    /\ UNCHANGED <<model, a0, a1, sclk, dout, op, async, channel,
                   old_channel, left, ret, i, data, word, bits, result,
                   prevOp, prevChannel, entry, fault>>

\* pwdn.set_low() / pwdn.set_high()
PwdnWrite(at, lvl, next) ==
    /\ pc = at
    /\ pwdn' = lvl
    /\ pc' = next
    /\ log' = Append(log, Ev("pwdn", LevelNum(lvl)))
    /\ UNCHANGED clk
    /\ UNCHANGED <<model, a0, a1, sclk, dout, op, async, channel,
                   old_channel, left, ret, i, data, word, bits, result,
                   prevOp, prevChannel, entry, fault>>

SclkWrite_OnPwdn(at, lvl, next, events) ==
    /\ pc = at
    /\ pwdn' = lvl
    /\ pc' = next
    /\ log' = log \o events
    /\ clk' = IF at \in AcqClockWrites
              THEN Append(clk, Ev("sclk", LevelNum(lvl))) ELSE clk
    /\ UNCHANGED <<model, a0, a1, sclk, dout, op, async, channel,
                   old_channel, left, ret, i, data, word, bits, result,
                   prevOp, prevChannel, entry, fault>>

\* sclk.set_low() / sclk.set_high(); the clock writes inside read_internal
\* are summarised in the log by the acquisition's begin and end
SclkWrite(at, lvl, next, events) ==
    /\ pc = at
    /\ sclk' = lvl
    /\ pc' = next
    /\ log' = log \o events
    /\ clk' = IF at \in AcqClockWrites
              THEN Append(clk, Ev("sclk", LevelNum(lvl))) ELSE clk
    /\ UNCHANGED <<model, a0, a1, pwdn, dout, op, async, channel,
                   old_channel, left, ret, i, data, word, bits, result,
                   prevOp, prevChannel, entry, fault>>

\* blocking: "while self.dout.is_high().unwrap() {}", one poll of the data line
PollWhileHigh(at, next) ==
    /\ pc = at
    /\ ~async
    /\ \E lvl \in Level :
          /\ dout' = lvl
          /\ pc' = IF lvl = High THEN at ELSE next
          /\ log' = IF lvl = High THEN log ELSE Append(log, Ev("wait", LevelNum(lvl)))
    /\ UNCHANGED <<model, a0, a1, sclk, pwdn, op, async, channel,
                   old_channel, left, ret, i, data, word, bits, result, clk,
                   prevOp, prevChannel, entry, fault>>

\* cooperative: "self.dout.wait_for_low().await" / "wait_for_high().await":
\* resumes once the data line is at the awaited level
WaitFor(at, lvl, next) ==
    /\ pc = at
    /\ async
    /\ dout' = lvl
    /\ pc' = next
    /\ log' = Append(log, Ev("wait", LevelNum(lvl)))
    /\ UNCHANGED <<model, a0, a1, sclk, pwdn, op, async, channel,
                   old_channel, left, ret, i, data, word, bits, result, clk,
                   prevOp, prevChannel, entry, fault>>

-----------------------------------------------------------------------------
(* reset_blocking / reset *)

Reset ==
    /\ op = "reset"
    /\ \/ PwdnWrite("rs_low1", Low, "rs_stabilize")
       \/ Pass("rs_stabilize", "rs_high1", <<Ev("delay_us", ResetStabilizeUs)>>)
       \/ PwdnWrite("rs_high1", High, "rs_hold_high")
       \/ Pass("rs_hold_high", "rs_low2", <<Ev("delay_us", ResetPulseUs)>>)
       \/ PwdnWrite("rs_low2", Low, "rs_hold_low")
       \/ Pass("rs_hold_low", "rs_high2", <<Ev("delay_us", ResetPulseUs)>>)
       \/ PwdnWrite("rs_high2", High, "idle")

-----------------------------------------------------------------------------
(* enter_standby_blocking / enter_standby *)

EnterStandby ==
    /\ op = "enter_standby"
    /\ \/ SclkWrite("sb_sclk_low", Low, "sb_wait", <<Ev("sclk", 0)>>)
       \/ PollWhileHigh("sb_wait", "sb_sclk_high")
       \/ WaitFor("sb_wait", High, "sb_sclk_high")
       \/ SclkWrite("sb_sclk_high", High, "idle", <<Ev("sclk", 1)>>)

-----------------------------------------------------------------------------
(* read_internal_blocking / read_internal *)

\* "self.sclk.set_low()" opening the acquisition
RiSclkLow == SclkWrite("ri_sclk_low", Low, "ri_wait", <<Ev("acq_begin", 0)>>)

\* the data line observed low: the converter holds a conversion (word);
\* "let mut data = 0u32"
RiReady(lvl) ==
    /\ dout' = lvl
    /\ IF lvl = High
       THEN UNCHANGED <<pc, word, data, i, bits, clk>>
       ELSE /\ pc' = "ri_bit_high"
            /\ word' \in SampleWords
            /\ data' = U32(0) /\ i' = 0 /\ bits' = <<>>
            /\ clk' = Append(clk, Ev("wait", LevelNum(lvl)))
    /\ UNCHANGED <<model, a0, a1, sclk, pwdn, op, async, channel,
                   old_channel, left, ret, result, log, prevOp, prevChannel, entry, fault>>

RiPoll_GivesUp ==
    /\ pc = "ri_wait" /\ ~async
    /\ \E lvl \in Level :
          /\ dout' = lvl
          /\ clk' = Append(clk, Ev("wait", LevelNum(lvl)))
    /\ pc' = "ri_bit_high"
    /\ word' \in SampleWords
    /\ data' = U32(0) /\ i' = 0 /\ bits' = <<>>
    /\ UNCHANGED <<model, a0, a1, sclk, pwdn, op, async, channel,
                   old_channel, left, ret, result, log, prevOp, prevChannel,
                   entry, fault>>

\* blocking: "while self.dout.is_high().unwrap() {}"
RiPoll == pc = "ri_wait" /\ ~async /\ \E lvl \in Level : RiReady(lvl)

\* cooperative: "self.dout.wait_for_low().await.unwrap()"
RiWaitForLow == pc = "ri_wait" /\ async /\ RiReady(Low)

\* "data |= self.dout.is_high().unwrap() as u32; data <<= 1;"
Accumulate(acc, lvl) == Shl1(Or32(acc, BoolAsU32(lvl)))

RiSample ==
    /\ pc = "ri_bit_sample"
    /\ dout' = DoutBit(word, i)
    /\ bits' = Append(bits, dout')
    /\ data' = Accumulate(data, dout')
    /\ clk' = Append(clk, Ev("sample", LevelNum(dout')))
    /\ pc' = "ri_bit_hold2"
    /\ UNCHANGED <<model, a0, a1, sclk, pwdn, op, async, channel,
                   old_channel, left, ret, i, word, result, log,
                   prevOp, prevChannel, entry, fault>>

RiBitNext_OneFewer ==
    /\ pc = "ri_bit_hold3"
    /\ i' = i + 1
    /\ pc' = IF i + 1 < DataBits - 1 THEN "ri_bit_high" ELSE "ri_p25_high"
    /\ clk' = Append(clk, Ev("delay_ns", AcqDelayNs.ri_bit_hold3))
    /\ UNCHANGED <<model, a0, a1, sclk, pwdn, dout, op, async, channel,
                   old_channel, left, ret, data, word, bits, result, log,
                   prevOp, prevChannel, entry, fault>>

\* end of one iteration of "for _ in 0..24": the closing delay_ns(100)
RiBitNext ==
    /\ pc = "ri_bit_hold3"
    /\ i' = i + 1
    /\ pc' = IF i + 1 < DataBits THEN "ri_bit_high" ELSE "ri_p25_high"
    /\ clk' = Append(clk, Ev("delay_ns", AcqDelayNs.ri_bit_hold3))
    /\ UNCHANGED <<model, a0, a1, sclk, pwdn, dout, op, async, channel,
                   old_channel, left, ret, data, word, bits, result, log,
                   prevOp, prevChannel, entry, fault>>

\* "i24_to_i32(data)" and the return to the caller
RiReturn ==
    /\ pc = "ri_ret"
    /\ result' = i24_to_i32(data)
    /\ log' = Append(log, Ev("acq_end", 0))
    /\ pc' = CASE ret = "discard" -> "rd_call"
               [] ret = "final" -> "idle"
               [] ret = "calibrate" -> "co_sclk_high"
    /\ UNCHANGED clk
    /\ UNCHANGED <<model, a0, a1, sclk, pwdn, dout, op, async, channel,
                   old_channel, left, ret, i, data, word, bits,
                   prevOp, prevChannel, entry, fault>>

ReadInternal ==
    \/ RiSclkLow
    \/ RiPoll
    \/ RiWaitForLow
    \/ SclkWrite("ri_bit_high", High, "ri_bit_hold1", <<>>)
    \/ Pass("ri_bit_hold1", "ri_bit_sample", <<>>)
    \/ RiSample
    \/ Pass("ri_bit_hold2", "ri_bit_low", <<>>)
    \/ SclkWrite("ri_bit_low", Low, "ri_bit_hold3", <<>>)
    \/ RiBitNext
    \/ SclkWrite("ri_p25_high", High, "ri_p25_hold1", <<>>)
    \/ Pass("ri_p25_hold1", "ri_p25_low", <<>>)
    \/ SclkWrite("ri_p25_low", Low, "ri_p25_hold2", <<>>)
    \/ Pass("ri_p25_hold2", "ri_ret", <<>>)
    \/ RiReturn

-----------------------------------------------------------------------------
(* calibrate_offset_blocking / calibrate_offset, after its read_internal *)

CalibrateOffset ==
    /\ op = "calibrate_offset"
    /\ \/ SclkWrite("co_sclk_high", High, "co_hold", <<Ev("sclk", 1)>>)
       \/ Pass("co_hold", "co_sclk_low", <<Ev("delay_ns", 100)>>)
       \/ SclkWrite("co_sclk_low", Low, "co_wait", <<Ev("sclk", 0)>>)
       \/ PollWhileHigh("co_wait", "idle")
       \/ WaitFor("co_wait", High, "idle")

-----------------------------------------------------------------------------
(* set_channel (ADS1232 and ADS1234) *)

\* the read-back of both select lines, the match and the comparison
ScMatch ==
    /\ pc = "sc_match"
    /\ old_channel' = OldChannel(model, a0, a1)
    /\ pc' = IF channel # old_channel' THEN "sc_a0" ELSE "rd_settle"
    /\ UNCHANGED clk
    /\ UNCHANGED <<model, a0, a1, sclk, pwdn, dout, op, async, channel,
                   left, ret, i, data, word, bits, result, log,
                   prevOp, prevChannel, entry, fault>>

\* "self.a0.set_state(a0)"
ScWriteA0 ==
    /\ pc = "sc_a0"
    /\ a0' = Levels(model, channel)[1]
    /\ log' = Append(log, Ev("a0", LevelNum(a0')))
    /\ pc' = "sc_a1"
    /\ UNCHANGED clk
    /\ UNCHANGED <<model, a1, sclk, pwdn, dout, op, async, channel,
                   old_channel, left, ret, i, data, word, bits, result,
                   prevOp, prevChannel, entry, fault>>

\* "self.a1.set_state(temp)" / "self.a1.set_state(a1)"; set_channel returns
ScWriteA1 ==
    /\ pc = "sc_a1"
    /\ a1' = Levels(model, channel)[2]
    /\ log' = Append(log, Ev("a1", LevelNum(a1')))
    /\ pc' = "rd_settle"
    /\ UNCHANGED clk
    /\ UNCHANGED <<model, a0, sclk, pwdn, dout, op, async, channel,
                   old_channel, left, ret, i, data, word, bits, result,
                   prevOp, prevChannel, entry, fault>>

SetChannel == ScMatch \/ ScWriteA0 \/ ScWriteA1

-----------------------------------------------------------------------------
(* read_blocking / read (ADS1232 and ADS1234), after set_channel *)

\* "if old_channel != channel { delay.delay_us(50) }"
RdSettle ==
    Pass("rd_settle",
         IF model = "ADS1232" THEN "rd_discard" ELSE "rd_call",
         IF NeedsSettle(old_channel, channel)
         THEN <<Ev("delay_us", SettleUs)>> ELSE <<>>)

\* ADS1232: "if (old_channel == Temp) != (channel == Temp) { for _ in 0..4 .. }"
RdDiscard ==
    /\ pc = "rd_discard"
    /\ left' = IF NeedsDiscard(model, old_channel, channel) THEN DiscardCount ELSE 0
    /\ pc' = "rd_call"
    /\ UNCHANGED clk
    /\ UNCHANGED <<model, a0, a1, sclk, pwdn, dout, op, async, channel,
                   old_channel, ret, i, data, word, bits, result, log,
                   prevOp, prevChannel, entry, fault>>

\* the next call of read_internal: one of the discard loop, or the final one
RdCall ==
    /\ pc = "rd_call"
    /\ IF left > 0
       THEN left' = left - 1 /\ ret' = "discard"
       ELSE left' = left /\ ret' = "final"
    /\ i' = 0 /\ data' = U32(0) /\ word' = 0 /\ bits' = <<>> /\ result' = 0
    /\ clk' = <<>>
    /\ pc' = "ri_sclk_low"
    /\ UNCHANGED <<model, a0, a1, sclk, pwdn, dout, op, async, channel,
                   old_channel, log, prevOp, prevChannel, entry, fault>>

Read == op = "read" /\ (RdSettle \/ RdDiscard \/ RdCall)

-----------------------------------------------------------------------------
(* A failing pin operation: every pin call is followed by ".unwrap()", which *)
(* panics on Err; the operation is abandoned where it stands                 *)

\* the positions that perform a pin operation (all but the delays, the loop
\* control and the returns)
PinOps ==
    {"rs_low1", "rs_high1", "rs_low2", "rs_high2",
     "sb_sclk_low", "sb_wait", "sb_sclk_high",
     "ri_sclk_low", "ri_wait", "ri_bit_high", "ri_bit_sample", "ri_bit_low",
     "ri_p25_high", "ri_p25_low",
     "co_sclk_high", "co_sclk_low", "co_wait",
     "sc_match", "sc_a0", "sc_a1"}

PinFail_Swallowed ==
    /\ pc \in PinOps
    /\ fault = "none"
    /\ fault' = pc
    /\ UNCHANGED <<model, a0, a1, sclk, pwdn, dout, op, async, pc, channel,
                   old_channel, left, ret, i, data, word, bits, result, log,
                   prevOp, prevChannel, clk, entry>>

PinFail ==
    /\ pc \in PinOps
    /\ fault' = pc
    /\ pc' = "panic"
    /\ UNCHANGED <<model, a0, a1, sclk, pwdn, dout, op, async, channel,
                   old_channel, left, ret, i, data, word, bits, result, log,
                   prevOp, prevChannel, clk, entry>>

-----------------------------------------------------------------------------
(* The driver *)

\* the steps of the operation in flight
Step ==
    \/ Reset
    \/ CalibrateOffset
    \/ EnterStandby
    \/ SetChannel
    \/ Read
    \/ ReadInternal

Call ==
    \/ CallReset
    \/ CallCalibrateOffset
    \/ CallEnterStandby
    \/ CallRead

Next ==
    \/ CallReset
    \/ CallCalibrateOffset
    \/ CallEnterStandby
    \/ CallRead
    \/ Reset
    \/ CalibrateOffset
    \/ EnterStandby
    \/ SetChannel
    \/ Read
    \/ ReadInternal
    \/ PinFail

Spec == Init /\ [][Next]_vars

-----------------------------------------------------------------------------
(* The driver with no failing pin operation, a driver that keeps running   *)
(* and a converter that drives the data line low while the driver waits    *)

NextLive == Call \/ Step

WaitPoints == {"ri_wait", "sb_wait", "co_wait"}

\* a step of the driver that waits for nothing
Compute == Step /\ pc \notin WaitPoints

\* the waiting driver observes the data line low
DataLow == Step /\ pc \in WaitPoints /\ dout' = Low

SpecLive == Init /\ [][NextLive]_vars /\ WF_vars(Compute) /\ WF_vars(DataLow)

-----------------------------------------------------------------------------
(* i24_to_i32 on its own: the function applied to inputs over the whole    *)
(* u32 range, close to the values where its result changes shape           *)

ConvHighHalves == {0, 127, 128, 255, 256, 383, 384, 32767, 32768, 65535}
ConvLowHalves == (0..ConvSpread) \cup ((Half - 1 - ConvSpread)..(Half - 1))
ConvInputs == {<<h, l>> : h \in ConvHighHalves, l \in ConvLowHalves}

InitConv ==
    /\ model \in Variants
    /\ a0 = Low /\ a1 = Low /\ sclk = Low /\ pwdn = High /\ dout = High
    /\ op = "i24_to_i32" /\ async = FALSE /\ pc = "conv_in"
    /\ channel = "none" /\ old_channel = "none"
    /\ left = 0 /\ ret = "none"
    /\ i = 0 /\ data \in ConvInputs /\ word = 0 /\ bits = <<>> /\ result = 0
    /\ log = <<>>
    /\ prevOp = "none" /\ prevChannel = "none"
    /\ clk = <<>> /\ fault = "none"
    /\ entry = Lines

ConvApply ==
    /\ pc = "conv_in"
    /\ result' = i24_to_i32(data)
    /\ pc' = "conv_out"
    /\ UNCHANGED clk
    /\ UNCHANGED <<model, a0, a1, sclk, pwdn, dout, op, async, channel,
                   old_channel, left, ret, i, data, word, bits, log,
                   prevOp, prevChannel, entry, fault>>

NextConv == ConvApply

SpecConv == InitConv /\ [][NextConv]_vars

-----------------------------------------------------------------------------
(* Observations used by the properties *)

Count(name) == Cardinality({k \in DOMAIN log : log[k][1] = name})

\* writes to a select line, settling delays, acquisitions of the current call
SelectWrites == Count("a0") + Count("a1")
SettleDelays == Cardinality({k \in DOMAIN log : log[k] = <<"delay_us", 50>>})
Acquisitions == Count("acq_end")

\* a read of the variant has returned
ReadReturned(m) == model = m /\ op = "read" /\ pc = "idle"

\* the current call is a read that directly follows another read
SecondRead(m) == model = m /\ op = "read" /\ prevOp = "read"

\* read_internal has just returned result
AcquisitionReturned ==
    /\ pc \in {"rd_call", "co_sclk_high", "idle"}
    /\ log # <<>>
    /\ log[Len(log)] = <<"acq_end", 0>>

RECURSIVE BitsValue(_)
BitsValue(bs) ==
    IF bs = <<>> THEN 0
    ELSE 2 * BitsValue(SubSeq(bs, 1, Len(bs) - 1)) + (IF bs[Len(bs)] THEN 1 ELSE 0)

TwosComplement24(n) == IF n >= 8388608 THEN n - 16777216 ELSE n

-----------------------------------------------------------------------------
(* Properties *)

\* C1: ADS1232: whenever read(c) has returned, the select lines hold the
\* levels of c: AIN1 -> (a0 low, a1 low), AIN2 -> (a0 high, a1 low),
\* Temp -> (a0 low, a1 high).
C1_LinesMatchChannel1232 ==
    ReadReturned("ADS1232") =>
        <<a0, a1>> = CASE channel = "AIN1" -> <<Low, Low>>
                       [] channel = "AIN2" -> <<High, Low>>
                       [] channel = "Temp" -> <<Low, High>>

\* C2: for each variant, the levels set_channel has just driven for the
\* requested channel c belong to no other channel, and the read-back of these
\* levels derives c.
C2_ReadBackInvertsMapping ==
    (op = "read" /\ pc = "rd_settle" /\ SelectWrites > 0) =>
        /\ <<a0, a1>> = Levels(model, channel)
        /\ \A d \in Channels(model) \ {channel} : Levels(model, d) # <<a0, a1>>
        /\ OldChannel(model, a0, a1) = channel

\* C3: ADS1232: a read of the channel the directly preceding read requested
\* writes neither select line.
C3_SameChannelNoSelectWrite ==
    (SecondRead("ADS1232") /\ prevChannel = channel) => SelectWrites = 0

\* C4: ADS1232: a read of the channel the directly preceding read requested
\* never enters the discard loop and performs exactly one acquisition.
C4_SameChannelNoDiscard ==
    (SecondRead("ADS1232") /\ prevChannel = channel) =>
        /\ left = 0
        /\ ret # "discard"
        /\ Count("acq_begin") <= 1
        /\ pc = "idle" => Acquisitions = 1

C4_Witness ==
    /\ SecondRead("ADS1232") /\ prevChannel = channel /\ pc = "idle"
    /\ channel = "AIN1" /\ SelectWrites = 2 /\ Acquisitions = 1

\* C5: ADS1232: a read of a channel other than the one the directly preceding
\* read requested performs, when exactly one of the two is Temp, 4 discarded
\* acquisitions and a fifth whose value it returns, and otherwise exactly one
\* acquisition.
C5_DiscardOnTempCrossing ==
    (SecondRead("ADS1232") /\ prevChannel # channel /\ pc = "idle") =>
        /\ Acquisitions = IF (prevChannel = "Temp") # (channel = "Temp")
                          THEN DiscardCount + 1 ELSE 1
        /\ Count("acq_begin") = Acquisitions
        /\ DiscardCount = 4
        /\ left = 0 /\ ret = "final"
        /\ log[Len(log)] = <<"acq_end", 0>>
        /\ Len(bits) = DataBits
        /\ result = i24_to_i32(data)

C5_Witness ==
    /\ SecondRead("ADS1232") /\ pc = "idle"
    /\ prevChannel = "Temp" /\ channel = "AIN2"
    /\ Acquisitions = 5

\* C6: ADS1232: a read of a channel other than the one the directly preceding
\* read requested writes both select lines, then delays 50 us once, then
\* begins its first acquisition, and writes no select line after the delay.
C6_SettleAfterChange1232 ==
    (SecondRead("ADS1232") /\ prevChannel # channel /\ pc = "idle") =>
        /\ Len(log) >= 4
        /\ log[1] = <<"a0", LevelNum(Levels1232(channel)[1])>>
        /\ log[2] = <<"a1", LevelNum(Levels1232(channel)[2])>>
        /\ log[3] = <<"delay_us", 50>>
        /\ log[4] = <<"acq_begin", 0>>
        /\ SelectWrites = 2
        /\ SettleDelays = 1

\* C7: ADS1234: a read directly following a read of another channel writes
\* the select lines, delays 50 us once and performs one acquisition; a read
\* directly following a read of the same channel performs one acquisition and
\* no delay.  No read of the ADS1234 enters a discard loop.
C7_Settle1234 ==
    /\ (SecondRead("ADS1234") /\ pc = "idle") =>
          log = IF prevChannel # channel
                THEN << <<"a0", LevelNum(Levels1234(channel)[1])>>,
                        <<"a1", LevelNum(Levels1234(channel)[2])>>,
                        <<"delay_us", 50>>,
                        <<"acq_begin", 0>>, <<"acq_end", 0>> >>
                ELSE << <<"acq_begin", 0>>, <<"acq_end", 0>> >>
    /\ (model = "ADS1234" /\ op = "read") =>
          left = 0 /\ ret # "discard" /\ pc # "rd_discard"

C7_Witness ==
    /\ SecondRead("ADS1234") /\ pc = "idle"
    /\ prevChannel = "AIN4" /\ channel = "AIN1"
    /\ SettleDelays = 1 /\ Acquisitions = 1

\* C8: ADS1234: whenever read(c) has returned, the select lines (a0, a1) hold
\* AIN1 -> (low, low), AIN2 -> (high, low), AIN3 -> (low, high),
\* AIN4 -> (high, high).
C8_LinesMatchChannel1234 ==
    ReadReturned("ADS1234") =>
        <<a0, a1>> = CASE channel = "AIN1" -> <<Low, Low>>
                       [] channel = "AIN2" -> <<High, Low>>
                       [] channel = "AIN3" -> <<Low, High>>
                       [] channel = "AIN4" -> <<High, High>>

C8_Witness ==
    /\ ReadReturned("ADS1234") /\ channel = "AIN4" /\ prevOp = "none"
    /\ SelectWrites = 2 /\ a0 = High /\ a1 = High

\* C9: the value read_internal returns is the 24-bit two's-complement number
\* whose bits, most significant first, are the 24 levels it sampled.
C9_ValueIsSampledWord ==
    AcquisitionReturned =>
        /\ Len(bits) = 24
        /\ result = TwosComplement24(BitsValue(bits))

\* C10: i24_to_i32(v) is v & 0xFFFFFF when bit 23 of v is 0 and
\* (v & 0xFFFFFF) - 16,777,216 when it is 1; the result lies in
\* -8,388,608 .. 8,388,607; 0x000001 -> 1, 0x7FFFFF -> 8,388,607,
\* 0x800000 -> -8,388,608, 0xFFFFFF -> -1.
C10_SignExtension ==
    pc = "conv_out" =>
        LET low24 == (data[1] % 256) * Half + data[2]
            bit23 == (data[1] \div 128) % 2
        IN  /\ result = IF bit23 = 0 THEN low24 ELSE low24 - 16777216
            /\ result \in -8388608..8388607
            /\ data = <<0, 1>> => result = 1
            /\ data = <<127, 65535>> => result = 8388607
            /\ data = <<128, 0>> => result = -8388608
            /\ data = <<255, 65535>> => result = -1

C10_Witness ==
    pc = "conv_out" /\ data = <<65535, 65535>> /\ result = -1


-----------------------------------------------------------------------------
(* Observations of one acquisition *)

IsHigh(e) == e = <<"sclk", 1>>
IsLow(e) == e = <<"sclk", 0>>
IsSample(e) == e[1] = "sample"

\* the clock writes of the acquisition, in order
ClockWrites == SelectSeq(clk, LAMBDA e : e[1] = "sclk")

\* events of a kind among the first k - 1 events of the acquisition
Before(k, Kind(_)) == Cardinality({j \in 1..(k - 1) : Kind(clk[j])})

\* C11: every acquisition writes the clock low, high, low, ..., low with
\* exactly 25 highs (25 pulses), samples the data line 24 times, the n-th
\* sample while the clock is high in pulse n (n = 1..24), none in pulse 25,
\* and returns with the clock low.
C11_TwentyFivePulses ==
    AcquisitionReturned =>
        /\ Len(ClockWrites) = 51
        /\ \A k \in 1..51 : ClockWrites[k] = <<"sclk", (k - 1) % 2>>
        /\ Cardinality({k \in DOMAIN clk : IsHigh(clk[k])}) = 25
        /\ Cardinality({k \in DOMAIN clk : IsSample(clk[k])}) = 24
        /\ \A k \in DOMAIN clk :
              IsSample(clk[k]) =>
                  /\ Before(k, IsHigh) = Before(k, IsSample) + 1
                  /\ Before(k, IsLow) = Before(k, IsHigh)
                  /\ Before(k, IsHigh) <= 24
        /\ sclk = Low

C11_Witness ==
    /\ pc = "co_sclk_high" /\ async
    /\ Len(bits) = 24 /\ Len(clk) = 150 /\ sclk = Low

\* C12: an acquisition first writes the clock low; while it waits, the clock
\* is low and nothing else has been done; it leaves the wait only on
\* observing the data line low, and an observation of high keeps it waiting
\* without a clock write; every clock high follows that observation of low.
C12_WaitsForDataReady ==
    /\ [](pc = "ri_wait" => sclk = Low /\ clk = << <<"sclk", 0>> >>)
    /\ [](\A k \in DOMAIN clk :
            IsHigh(clk[k]) => (k > 2 /\ clk[1] = <<"sclk", 0>> /\ clk[2] = <<"wait", 0>>))
    /\ [][(pc = "ri_wait" /\ pc' \notin {"ri_wait", "panic"}) =>
            (dout' = Low /\ pc' = "ri_bit_high" /\ sclk' = Low)]_vars
    /\ [][(pc = "ri_wait" /\ dout' = High /\ pc' # "panic") =>
            (pc' = "ri_wait" /\ sclk' = sclk /\ clk' = clk /\ result' = result)]_vars

C12_Witness ==
    pc = "ri_wait" /\ ~async /\ dout = High /\ sclk = Low /\ entry.sclk = High

\* C13: reset, in both modes, writes power-down low, delays 50 us, writes it
\* high, delays 26 us, writes it low, delays 26 us, writes it high; it
\* returns with power-down high, and touches no other line.
C13_ResetSequence ==
    /\ []((op = "reset" /\ pc = "idle") =>
            /\ log = << <<"pwdn", 0>>, <<"delay_us", 50>>, <<"pwdn", 1>>,
                        <<"delay_us", 26>>, <<"pwdn", 0>>, <<"delay_us", 26>>,
                        <<"pwdn", 1>> >>
            /\ pwdn = High
            /\ clk = <<>>
            /\ <<a0, a1, sclk>> = <<entry.a0, entry.a1, entry.sclk>>)
    /\ [][(op = "reset" /\ pc # "idle") =>
            UNCHANGED <<a0, a1, sclk, dout, clk>>]_vars

C13_Witness ==
    /\ op = "reset" /\ pc = "idle" /\ async
    /\ Len(log) = 7 /\ pwdn = High /\ entry.pwdn = Low


-----------------------------------------------------------------------------
(* Observations of a whole call *)

WaitEvents(t) == {k \in DOMAIN t : t[k][1] = "wait"}

\* the first acquisition of the call has begun before event k of the log
ClockedBefore(k) == \E j \in 1..(k - 1) : log[j] = <<"acq_begin", 0>>

\* C14: enter-standby, in both modes, writes the clock low, waits until it
\* observes the data line low, writes the clock high and returns with the
\* clock high; it samples nothing and writes the clock nowhere else.
C14_StandbySequence ==
    (op = "enter_standby" /\ pc = "idle") =>
        /\ log = << <<"sclk", 0>>, <<"wait", 0>>, <<"sclk", 1>> >>
        /\ sclk = High
        /\ clk = <<>> /\ bits = <<>>

\* C15: calibrate-offset, in both modes, performs one whole acquisition,
\* then writes the clock high, delays 100 ns, writes it low, and returns after
\* observing the data line low.
C15_CalibrateSequence ==
    (op = "calibrate_offset" /\ pc = "idle") =>
        /\ log = << <<"acq_begin", 0>>, <<"acq_end", 0>>, <<"sclk", 1>>,
                    <<"delay_ns", 100>>, <<"sclk", 0>>, <<"wait", 0>> >>
        /\ Len(bits) = 24
        /\ Cardinality({k \in DOMAIN clk : IsHigh(clk[k])}) = 25
        /\ dout = Low

\* C16: the two modes run the same steps and differ only in how they wait;
\* the blocking loops end on an observation of low, so the modes agree when
\* every wait of the cooperative mode ends on low too.
C16_ModesWaitForSameLevel ==
    /\ \A k \in WaitEvents(log) : log[k] = <<"wait", 0>>
    /\ \A k \in WaitEvents(clk) : clk[k] = <<"wait", 0>>

\* C17: once a pin operation has failed the operation is abandoned: the
\* failing step changes no line and adds nothing to the log, and nothing at
\* all happens afterwards (no retry, no pin operation, no delay, no return).
C17_FailureIsFatal ==
    /\ [](fault # "none" => (pc = "panic" /\ fault \in PinOps))
    /\ [][fault # "none" => UNCHANGED vars]_vars
    /\ [][fault' # fault =>
            UNCHANGED <<a0, a1, sclk, pwdn, dout, log, clk, result, bits>>]_vars

C17_Witness ==
    /\ pc = "panic" /\ fault = "sc_a1" /\ op = "read" /\ model = "ADS1232"
    /\ channel = "AIN2" /\ a0 = High /\ a1 = High /\ Len(log) = 1

\* C18: with no failing pin operation and a converter that drives the data
\* line low while the driver waits, every call of every operation returns.
C18_EveryCallReturns == (pc # "idle") ~> (pc = "idle")

\* C19: ADS1232: a read performs the 4 discarded acquisitions exactly when
\* the level of a1 (TEMP) at its return differs from the level at its call.
C19_DiscardIffTempPinChanged ==
    ReadReturned("ADS1232") =>
        /\ Acquisitions \in {1, 5}
        /\ (Acquisitions = 5) <=> (a1 # entry.a1)

C19_Witness ==
    /\ ReadReturned("ADS1232") /\ entry.a0 = High /\ entry.a1 = High
    /\ channel = "AIN2" /\ Acquisitions = 5 /\ a1 = Low

\* C20: reset writes only power-down; calibrate-offset, enter-standby and
\* read_internal write only the clock; read never writes power-down and
\* writes the select lines only before its first clock write.
C20_OwnLinesOnly ==
    /\ [][(pc # "idle" /\ op = "reset") => UNCHANGED <<sclk, a0, a1>>]_vars
    /\ [][(pc # "idle" /\ op \in {"calibrate_offset", "enter_standby"}) =>
            UNCHANGED <<pwdn, a0, a1>>]_vars
    /\ [][(pc # "idle" /\ op = "read") =>
            /\ pwdn' = pwdn
            /\ Count("acq_begin") > 0 => UNCHANGED <<a0, a1>>]_vars
    /\ [](\A k \in DOMAIN log :
            /\ op = "reset" => log[k][1] \in {"pwdn", "delay_us"}
            /\ op # "reset" => log[k][1] # "pwdn"
            /\ op \in {"calibrate_offset", "enter_standby"} => log[k][1] \notin {"a0", "a1"}
            /\ log[k][1] \in {"a0", "a1"} => ~ClockedBefore(k))
    /\ [](op = "reset" => clk = <<>>)

C20_Witness ==
    /\ ReadReturned("ADS1234") /\ SelectWrites = 2 /\ Acquisitions = 1
    /\ a0 # entry.a0 /\ a1 # entry.a1 /\ pwdn = entry.pwdn /\ pwdn = Low

=============================================================================
